---- MODULE Spec2Model ----
\* A model of camerge (src/src/camerge/__init__.py): merge_calendars and the
\* helpers it calls.  Texts are sequences of tokens, optional values are
\* sequences of length 0 (None) or 1, an icalendar component is a record
\* [name, props] whose props is a function from the property names it holds.
EXTENDS Integers, Sequences, FiniteSets, TLC

VARIABLES
    args,           \* the keyword arguments of the running merge_calendars call
    calendar_data,  \* its list of (descriptor, anonymize) sources
    idx,            \* position of the for loop of line 189 (1-based)
    calendar,       \* the Calendar built by lines 185-204
    pc,             \* "loop", "returned" or "raised"
    result,         \* the returned text, <<>> before the return
    origin,         \* for each subcomponent of calendar, the source and position it came from
    remembered      \* an output event of an earlier call: <<>> or <<[component, domain, uid]>>

vars == <<args, calendar_data, idx, calendar, pc, result, origin, remembered>>

--------------------------------------------------------------------------
\* Bounds of the explored inputs.

MaxSources == 2
MaxAttendees == 2
MaxDay == 3

--------------------------------------------------------------------------
\* Python values.

None == <<>>

Some(v) == <<v>>

\* bool(x) of an Optional[str]: None and '' are false.
TruthyStr(opt) == IF opt = None THEN FALSE ELSE opt[1] /= ""

\* bool(x) of an Optional[list]: None and [] are false.
TruthyList(opt) == IF opt = None THEN FALSE ELSE opt[1] /= <<>>

\* key in component / component[key] = value on a CaselessDict.
Has(component, key) == key \in DOMAIN component.props

SetItem(component, key, value) ==
    [component EXCEPT !.props = (key :> value) @@ component.props]

\* str.startswith
StartsWith(text, prefix) ==
    /\ Len(text) >= Len(prefix)
    /\ SubSeq(text, 1, Len(prefix)) = prefix

\* sub in text
Contains(text, sub) ==
    \E i \in 0..(Len(text) - Len(sub)) : SubSeq(text, i + 1, i + Len(sub)) = sub

\* str.replace(old, '') for a one-token old
RECURSIVE Remove(_, _)
Remove(text, old) ==
    IF text = <<>> THEN <<>>
    ELSE (IF Head(text) = old THEN <<>> ELSE <<Head(text)>>) \o Remove(Tail(text), old)

--------------------------------------------------------------------------
\* Tokens and their byte codes (str.encode()).

HexDigits == <<"0", "1", "2", "3", "4", "5", "6", "7", "8", "9", "a", "b", "c", "d", "e", "f">>

Tokens ==
    HexDigits \o
    << ":", ";", "=", "\n", "T", "@", "",
       "BEGIN", "END", "VCALENDAR", "VEVENT", "VTIMEZONE", "VTODO",
       "SUMMARY", "DTSTART", "DTEND", "DTSTAMP", "UID", "RECURRENCE-ID", "SEQUENCE",
       "RRULE", "ATTENDEE", "DESCRIPTION", "STATUS", "TRANSP", "TZID", "VERSION", "PRODID",
       "PARTSTAT", "ACCEPTED", "DECLINED", "TENTATIVE", "NEEDS-ACTION", "DELEGATED",
       "CONFIRMED", "CANCELLED", "FINAL",
       "mailto:", "me", "bob", "zed", "@x", "u1", "u2", "lunch", "review", "busy", "free",
       "FREQ=DAILY", "OPAQUE", "stamp", "rid", "notes", "Europe/Prague",
       "2.0", "Merged Calendar", "My Availability", "camerge", "example.com" >>

Ord(token) == CHOOSE i \in 1..Len(Tokens) : Tokens[i] = token

encode(text) == [i \in 1..Len(text) |-> Ord(text[i])]

Digit(n) == HexDigits[n + 1]

--------------------------------------------------------------------------
\* hashlib.md5(data).hexdigest().  The 128-bit digest is modelled by an 8-bit
\* one (two hex digits): a deterministic fixed-length digest of the bytes.

\* the digest state after the bytes lo..hi, as <<multiplier, increment>> of the
\* map h |-> (h * multiplier + increment) % 256 they apply to it; md5 reads its
\* input block after block, and the blocks are halved here
RECURSIVE md5_update(_, _, _)
md5_update(data, lo, hi) ==
    IF lo > hi THEN <<1, 0>>
    ELSE IF lo = hi THEN <<33, data[lo]>>
    ELSE LET mid == (lo + hi) \div 2
             first == md5_update(data, lo, mid)
             second == md5_update(data, mid + 1, hi)
         IN  <<(first[1] * second[1]) % 256, (first[2] * second[1] + second[2]) % 256>>

md5_hexdigest(data) ==
    LET update == md5_update(data, 1, Len(data))
        h == (7 * update[1] + update[2]) % 256
    IN  <<Digit(h \div 16), Digit(h % 16)>>

--------------------------------------------------------------------------
\* icalendar: Component.to_ical().  Property names are written in upper case,
\* in the component's canonical order, one content line per value.

PropertyOrder ==
    << "version", "prodid", "summary", "dtstart", "dtend", "dtstamp", "uid",
       "recurrence-id", "sequence", "rrule", "attendee", "description", "status",
       "transp", "tzid" >>

Upper(key) ==
    CASE key = "version" -> "VERSION"
      [] key = "prodid" -> "PRODID"
      [] key = "summary" -> "SUMMARY"
      [] key = "dtstart" -> "DTSTART"
      [] key = "dtend" -> "DTEND"
      [] key = "dtstamp" -> "DTSTAMP"
      [] key = "uid" -> "UID"
      [] key = "recurrence-id" -> "RECURRENCE-ID"
      [] key = "sequence" -> "SEQUENCE"
      [] key = "rrule" -> "RRULE"
      [] key = "attendee" -> "ATTENDEE"
      [] key = "description" -> "DESCRIPTION"
      [] key = "status" -> "STATUS"
      [] key = "transp" -> "TRANSP"
      [] key = "tzid" -> "TZID"

\* vDDDTypes.to_ical(): a date, or a date-time with its time of day
dt_to_ical(value) ==
    IF "time" \in DOMAIN value
    THEN <<Digit(value.day), "T", Digit(value.time)>>
    ELSE <<Digit(value.day)>>

\* vCalAddress.to_ical(): the address alone, without its parameters
address_to_ical(a) == a.address

attendee_line(a) ==
    <<"ATTENDEE">>
    \o (IF a.params.partstat /= None THEN <<";", "PARTSTAT", "=", a.params.partstat[1]>> ELSE <<>>)
    \o <<":">> \o address_to_ical(a) \o <<"\n">>

RECURSIVE attendee_lines(_, _)
attendee_lines(attendees, i) ==
    IF i > Len(attendees) THEN <<>>
    ELSE attendee_line(attendees[i]) \o attendee_lines(attendees, i + 1)

property_lines(key, value) ==
    CASE key = "attendee" ->
            attendee_lines(value.v, 1)
      [] key \in {"dtstart", "dtend"} ->
            <<Upper(key), ":">> \o dt_to_ical(value) \o <<"\n">>
      [] key = "uid" ->
            <<Upper(key), ":">> \o value \o <<"\n">>
      [] OTHER ->
            <<Upper(key), ":", value, "\n">>

RECURSIVE properties_to_ical(_, _)
properties_to_ical(props, k) ==
    IF k > Len(PropertyOrder) THEN <<>>
    ELSE (IF PropertyOrder[k] \in DOMAIN props
          THEN property_lines(PropertyOrder[k], props[PropertyOrder[k]])
          ELSE <<>>)
         \o properties_to_ical(props, k + 1)

RECURSIVE subcomponents_to_ical(_, _)

to_ical(component) ==
    <<"BEGIN", ":", component.name, "\n">>
    \o properties_to_ical(component.props, 1)
    \o (IF "subcomponents" \in DOMAIN component
        THEN subcomponents_to_ical(component.subcomponents, 1)
        ELSE <<>>)
    \o <<"END", ":", component.name, "\n">>

subcomponents_to_ical(subcomponents, i) ==
    IF i > Len(subcomponents) THEN <<>>
    ELSE LET c == subcomponents[i]
         IN  <<"BEGIN", ":", c.name, "\n">>
             \o properties_to_ical(c.props, 1)
             \o <<"END", ":", c.name, "\n">>
             \o subcomponents_to_ical(subcomponents, i + 1)

--------------------------------------------------------------------------
\* The helpers of src/src/camerge/__init__.py.

\* copy_event with the keys ignored: every property of the event is copied
copy_event_all(event, keys) ==
    [name |-> "VEVENT", props |-> event.props]

\* __copy_event: a new Event holding event[key] for every key of keys that event has
copy_event(event, keys) ==
    LET present == {keys[i] : i \in 1..Len(keys)} \cap DOMAIN event.props
    IN  [name |-> "VEVENT", props |-> [key \in present |-> event.props[key]]]

\* generate_uid that always hashes the whole event
generate_uid_of_content(component, domain) ==
    md5_hexdigest(encode(to_ical(component))) \o <<"@", domain>>

\* __generate_uid: md5 of the uid when there is one, of the whole event otherwise
generate_uid(component, domain) ==
    LET hashed_version ==
            md5_hexdigest(encode(IF Has(component, "uid")
                                 THEN component.props["uid"]
                                 ELSE to_ical(component)))
    IN  hashed_version \o <<"@", domain>>

\* datetime.date(): a date-time truncated to its calendar date
date(value) == [day |-> value.day]

\* should_skip_event that also drops the events ending on the cutoff date
should_skip_event_inclusive(component, skip_events_before) ==
    IF /\ skip_events_before /= None
       /\ (Has(component, "dtend") \/ Has(component, "dtstart"))
       /\ ~Has(component, "rrule")
    THEN LET dt == IF Has(component, "dtend")
                   THEN component.props["dtend"]
                   ELSE component.props["dtstart"]
         IN  dt.day <= skip_events_before[1].day
    ELSE FALSE

\* __should_skip_event
should_skip_event(component, skip_events_before) ==
    IF /\ skip_events_before /= None
       /\ (Has(component, "dtend") \/ Has(component, "dtstart"))
       /\ ~Has(component, "rrule")
    THEN LET dt == IF Has(component, "dtend")
                   THEN component.props["dtend"]
                   ELSE component.props["dtstart"]
             event_end_date == IF "time" \in DOMAIN dt THEN date(dt) ELSE dt
         IN  event_end_date.day < skip_events_before[1].day
    ELSE FALSE

\* a.params.get('partstat'): None when the attendee has no such parameter
params_get_partstat(a) == a.params.partstat

\* lines 73-77: the partstat of each attendee whose address holds a known email
RECURSIVE known_partstats(_, _, _)
known_partstats(attendees, known_emails, i) ==
    IF i > Len(attendees) THEN <<>>
    ELSE (IF \E e \in 1..Len(known_emails) :
                Contains(Remove(address_to_ical(attendees[i]), "\n"), known_emails[e])
          THEN <<params_get_partstat(attendees[i])>>
          ELSE <<>>)
         \o known_partstats(attendees, known_emails, i + 1)

\* value in list
In(value, list) == \E i \in 1..Len(list) : list[i] = value

\* determine_status that looks at every attendee, known or not
determine_status_any_attendee(component, known_emails) ==
    LET stored == IF Has(component, "status") THEN component.props["status"] ELSE "CONFIRMED"
    IN  IF Has(component, "attendee") /\ Len(known_emails) > 0
        THEN LET attendee == component.props["attendee"]
                 attendees == IF attendee.is_list THEN attendee.v ELSE <<attendee.v[1]>>
                 partstats == [i \in 1..Len(attendees) |-> params_get_partstat(attendees[i])]
             IN  IF In(Some("ACCEPTED"), partstats) THEN "CONFIRMED"
                 ELSE IF In(Some("DECLINED"), partstats) THEN "CANCELLED"
                 ELSE IF In(Some("TENTATIVE"), partstats) \/ In(Some("NEEDS-ACTION"), partstats)
                      THEN "TENTATIVE"
                 ELSE stored
        ELSE stored

\* determine_status that returns the participation status it found
determine_status_partstat(component, known_emails) ==
    LET stored == IF Has(component, "status") THEN component.props["status"] ELSE "CONFIRMED"
    IN  IF Has(component, "attendee") /\ Len(known_emails) > 0
        THEN LET attendee == component.props["attendee"]
                 attendees == IF attendee.is_list THEN attendee.v ELSE <<attendee.v[1]>>
                 partstats == known_partstats(attendees, known_emails, 1)
             IN  IF In(Some("ACCEPTED"), partstats) THEN "ACCEPTED"
                 ELSE IF In(Some("DECLINED"), partstats) THEN "DECLINED"
                 ELSE IF In(Some("TENTATIVE"), partstats) \/ In(Some("NEEDS-ACTION"), partstats)
                      THEN "TENTATIVE"
                 ELSE stored
        ELSE stored

\* __determine_status
determine_status(component, known_emails) ==
    LET stored == IF Has(component, "status") THEN component.props["status"] ELSE "CONFIRMED"
    IN  IF Has(component, "attendee") /\ Len(known_emails) > 0
        THEN LET attendee == component.props["attendee"]
                 attendees == IF attendee.is_list THEN attendee.v ELSE <<attendee.v[1]>>
                 partstats == known_partstats(attendees, known_emails, 1)
             IN  IF In(Some("ACCEPTED"), partstats) THEN "CONFIRMED"
                 ELSE IF In(Some("DECLINED"), partstats) THEN "CANCELLED"
                 ELSE IF In(Some("TENTATIVE"), partstats) \/ In(Some("NEEDS-ACTION"), partstats)
                      THEN "TENTATIVE"
                 ELSE stored
        ELSE stored

\* the keys __process_calendar_data copies (lines 120-123)
CopyKeys ==
    << "dtstart", "dtend", "dtstamp", "rrule", "status", "summary",
       "transp", "sequence", "recurrence-id" >>

\* lines 118-130: the new event made of one source event
process_event(component, calendar_domain, known_emails, busy_place_holder) ==
    LET copied == copy_event(component, CopyKeys)
        with_uid == SetItem(copied, "uid", generate_uid(component, calendar_domain))
        with_summary == IF TruthyStr(busy_place_holder)
                        THEN SetItem(with_uid, "summary", busy_place_holder[1])
                        ELSE with_uid
    IN  SetItem(with_summary, "status", determine_status(component, known_emails))

RECURSIVE process_from(_, _, _, _, _, _)

\* process_from that puts each new component in front of the list
process_from_newest_first(subcomponents, j, calendar_domain, known_emails, skip_events_before, busy_place_holder) ==
    IF j > Len(subcomponents) THEN <<>>
    ELSE LET component == subcomponents[j]
             rest == process_from(subcomponents, j + 1, calendar_domain, known_emails,
                                  skip_events_before, busy_place_holder)
         IN  IF component.name = "VTIMEZONE"
             THEN rest \o <<[pos |-> j, component |-> component]>>
             ELSE IF component.name = "VEVENT"
             THEN IF should_skip_event(component, skip_events_before)
                  THEN rest
                  ELSE rest
                       \o <<[pos |-> j,
                             component |-> process_event(component, calendar_domain,
                                                         known_emails, busy_place_holder)]>>
             ELSE rest

\* the loop of lines 111-134 from subcomponent j on: the components appended,
\* each with the position of the subcomponent it was made of
process_from(subcomponents, j, calendar_domain, known_emails, skip_events_before, busy_place_holder) ==
    IF j > Len(subcomponents) THEN <<>>
    ELSE LET component == subcomponents[j]
             rest == process_from(subcomponents, j + 1, calendar_domain, known_emails,
                                  skip_events_before, busy_place_holder)
         IN  IF component.name = "VTIMEZONE"
             THEN <<[pos |-> j, component |-> component]>> \o rest
             ELSE IF component.name = "VEVENT"
             THEN IF should_skip_event(component, skip_events_before)
                  THEN rest
                  ELSE <<[pos |-> j,
                          component |-> process_event(component, calendar_domain,
                                                      known_emails, busy_place_holder)]>>
                       \o rest
             ELSE rest

--------------------------------------------------------------------------
\* Fetching and parsing.  A descriptor is [scheme, rest]; the rest of a data://
\* descriptor is the calendar text itself, the rest of any other descriptor names
\* a resource, given here by what reading it does: [io, content].  A text is
\* [raw |-> "empty"] (the empty string), [raw |-> "garbage"] (not parseable) or
\* [raw |-> "ical", subcomponents].

\* __get_calendar_data
get_calendar_data(url) ==
    IF StartsWith(url.scheme, <<"file", "://">>)
    THEN IF url.rest.io = "ok" THEN Some(url.rest.content) ELSE None
    ELSE IF StartsWith(url.scheme, <<"http">>) \/ StartsWith(url.scheme, <<"webcal", "://">>)
    THEN IF url.rest.io = "ok" THEN Some(url.rest.content) ELSE None
    ELSE IF StartsWith(url.scheme, <<"data", "://">>)
    THEN Some(url.rest)
    ELSE None

\* not calendar_data (line 192): None or the empty string
NoData(data) == IF data = None THEN TRUE ELSE data[1].raw = "empty"

\* Calendar().from_ical(text) raises ValueError on a text that is no calendar
from_ical_raises(text) == text.raw = "garbage"

\* known_emails if known_emails else [] (line 198)
known_emails_or_empty(known_emails) ==
    IF TruthyList(known_emails) THEN known_emails[1] ELSE <<>>

\* busy_placeholder if anonymize else None (line 199)
busy_place_holder_for(busy_placeholder, anonymize) ==
    IF anonymize THEN Some(busy_placeholder) ELSE None

\* __process_calendar_data as merge_calendars calls it (lines 195-201)
process_calendar_data(text, anonymize) ==
    process_from(text.subcomponents, 1, args.calendar_domain,
                 known_emails_or_empty(args.known_emails), args.skip_events_before,
                 busy_place_holder_for(args.busy_placeholder, anonymize))

\* lines 185-187: the new Calendar with its prodid and version
new_calendar(calendar_name) ==
    [name |-> "VCALENDAR",
     props |-> [prodid |-> calendar_name, version |-> "2.0"],
     subcomponents |-> <<>>]

--------------------------------------------------------------------------
\* merge_calendars: one action per way an iteration of the loop of line 189 ends.

Looping == pc = "loop" /\ idx <= Len(calendar_data)

\* lines 190-193: nothing was fetched, the source is skipped
SkipSource ==
    /\ Looping
    /\ NoData(get_calendar_data(calendar_data[idx].url))
    /\ idx' = idx + 1
    /\ UNCHANGED <<args, calendar_data, calendar, pc, result, origin, remembered>>

\* line 110: from_ical raises and nothing catches it, the call ends with the exception
ParseError ==
    /\ Looping
    /\ LET data == get_calendar_data(calendar_data[idx].url)
       IN  ~NoData(data) /\ from_ical_raises(data[1])
    /\ pc' = "raised"
    /\ UNCHANGED <<args, calendar_data, idx, calendar, result, origin, remembered>>

\* lines 195-204: the components of the source are added to the calendar
AddComponents ==
    /\ Looping
    /\ LET data == get_calendar_data(calendar_data[idx].url)
       IN  /\ ~NoData(data)
           /\ ~from_ical_raises(data[1])
           /\ LET components == process_calendar_data(data[1], calendar_data[idx].anonymize)
              IN  /\ calendar' = [calendar EXCEPT !.subcomponents =
                                     @ \o [k \in 1..Len(components) |-> components[k].component]]
                  /\ origin' = origin \o [k \in 1..Len(components) |->
                                              [source |-> idx, pos |-> components[k].pos]]
    /\ idx' = idx + 1
    /\ UNCHANGED <<args, calendar_data, pc, result, remembered>>

\* line 205
Return ==
    /\ pc = "loop"
    /\ idx > Len(calendar_data)
    /\ result' = Some(to_ical(calendar))
    /\ pc' = "returned"
    /\ UNCHANGED <<args, calendar_data, idx, calendar, origin, remembered>>

Next == SkipSource \/ ParseError \/ AddComponents \/ Return

\* the state of a call when its loop starts
Start(a, sources) ==
    /\ args = a
    /\ calendar_data = sources
    /\ idx = 1
    /\ calendar = new_calendar(a.calendar_name)
    /\ pc = "loop"
    /\ result = None
    /\ origin = <<>>

--------------------------------------------------------------------------
\* Inputs.

Event(props) == [name |-> "VEVENT", props |-> props]

Day(d) == [day |-> d]

DayTime(d, t) == [day |-> d, time |-> t]

\* an attendee; partstat is None when the PARTSTAT parameter is missing
Attendee(address, partstat) == [address |-> address, params |-> [partstat |-> partstat]]

\* the value of the attendee property: one value (kept in v[1]) or a list of values
One(a) == [is_list |-> FALSE, v |-> <<a>>]

Many(as) == [is_list |-> TRUE, v |-> as]

Me == <<"mailto:", "me", "@x">>

Bob == <<"mailto:", "bob", "@x">>

TZ == [name |-> "VTIMEZONE", props |-> [tzid |-> "Europe/Prague"]]

TODO == [name |-> "VTODO", props |-> [uid |-> <<"u2">>, summary |-> "review"]]

EvOld ==
    Event([uid |-> <<"u1">>, summary |-> "lunch", dtstart |-> Day(1), dtend |-> Day(1)])

EvNew ==
    Event([uid |-> <<"u2">>, summary |-> "review", dtstart |-> DayTime(MaxDay, 1),
           attendee |-> One(Attendee(Me, Some("DECLINED")))])

EvRec ==
    Event([summary |-> "lunch", dtstart |-> Day(1), rrule |-> "FREQ=DAILY"])

EmptyText == [raw |-> "empty"]

Garbage == [raw |-> "garbage"]

Ical(subcomponents) == [raw |-> "ical", subcomponents |-> subcomponents]

Source(scheme, rest, anonymize) ==
    [url |-> [scheme |-> scheme, rest |-> rest], anonymize |-> anonymize]

Data == <<"data", "://">>

Calendars == { <<>>, <<TZ, EvOld>>, <<EvOld, TODO, EvNew>>, <<TZ, EvRec, EvOld>> }

Texts == {EmptyText, Garbage} \cup {Ical(c) : c \in Calendars}

Resource(io) == [io |-> io, content |-> Ical(<<TZ, EvOld>>)]

Sources ==
    {Source(Data, t, a) : t \in Texts, a \in BOOLEAN}
    \cup { Source(<<"file", "://">>, Resource("ok"), TRUE),
           Source(<<"file", "://">>, Resource("error"), FALSE),
           Source(<<"http", "://">>, Resource("ok"), FALSE),
           Source(<<"http", "s", "://">>, Resource("error"), TRUE),
           Source(<<"webcal", "://">>, Resource("ok"), FALSE),
           Source(<<"ftp", "://">>, Resource("ok"), FALSE) }

RECURSIVE ListsUpTo(_, _)
ListsUpTo(S, n) ==
    IF n = 0 THEN {<<>>}
    ELSE LET shorter == ListsUpTo(S, n - 1)
         IN  shorter \cup {Append(l, x) : l \in {m \in shorter : Len(m) = n - 1}, x \in S}

Args(known_emails, calendar_name, busy_placeholder, calendar_domain, skip_events_before) ==
    [known_emails |-> known_emails, calendar_name |-> calendar_name,
     busy_placeholder |-> busy_placeholder, calendar_domain |-> calendar_domain,
     skip_events_before |-> skip_events_before]

\* the defaults of lines 168-172
DefaultArgs == Args(None, "Merged Calendar", "busy", "camerge", None)

MergeArgs ==
    { DefaultArgs,
      Args(Some(<<<<"me", "@x">>>>), "My Availability", "busy", "example.com", Some(Day(2))),
      Args(Some(<<>>), "Merged Calendar", "free", "camerge", Some(Day(2))),
      Args(Some(<<<<"bob">>>>), "My Availability", "", "camerge", None) }

Init ==
    /\ \E a \in MergeArgs, sources \in ListsUpTo(Sources, MaxSources) : Start(a, sources)
    /\ remembered = None

Spec == Init /\ [][Next]_vars

--------------------------------------------------------------------------
\* Calls on one source holding one event, over wider sets of events and arguments.

Restrict(f, keys) == [k \in keys \cap DOMAIN f |-> f[k]]

Case(a, source) == [args |-> a, source |-> source]

OneEvent(props, anonymize) == Source(Data, Ical(<<Event(props)>>), anonymize)

DtValues ==
    {Day(d) : d \in 1..MaxDay} \cup {DayTime(d, t) : d \in 1..MaxDay, t \in {0, 9}}

DtProps(key) == {<<>>} \cup {key :> v : v \in DtValues}

\* events that differ in their start, end and recurrence rule, under every cutoff
FilterCases ==
    { Case([DefaultArgs EXCEPT !.skip_events_before = cutoff],
           OneEvent(start @@ end @@ rrule @@ [uid |-> <<"u1">>, summary |-> "lunch"], FALSE)) :
        start \in DtProps("dtstart"), end \in DtProps("dtend"),
        rrule \in {<<>>, [rrule |-> "FREQ=DAILY"]},
        cutoff \in {None} \cup {Some(Day(d)) : d \in 1..MaxDay} }

PartStats == {"ACCEPTED", "DECLINED", "TENTATIVE", "NEEDS-ACTION", "DELEGATED"}

Attendees ==
    {Attendee(address, partstat) :
        address \in {Me, Bob},
        partstat \in {None} \cup {Some(p) : p \in PartStats}}

\* a single ATTENDEE line parses to one value, several lines to a list
AttendeeProps ==
    {<<>>}
    \cup {[attendee |-> One(a)] : a \in Attendees}
    \cup {[attendee |-> Many(as)] :
            as \in {l \in ListsUpTo(Attendees, MaxAttendees) : Len(l) >= 2}}

KnownEmails ==
    { None, Some(<<>>), Some(<<<<"me", "@x">>>>), Some(<<<<"zed">>, <<"bob">>>>),
      Some(<<<<"@x">>>>) }

\* events that differ in their attendees and stored status, under several known_emails
StatusCases ==
    { Case([DefaultArgs EXCEPT !.known_emails = known],
           OneEvent(attendee @@ status @@ [uid |-> <<"u1">>, summary |-> "lunch"], FALSE)) :
        attendee \in AttendeeProps,
        status \in {<<>>, [status |-> "CANCELLED"], [status |-> "FINAL"]},
        known \in KnownEmails }

FullProps ==
    [uid |-> <<"u1">>, summary |-> "lunch", dtstart |-> Day(1), dtend |-> DayTime(1, 9),
     dtstamp |-> "stamp", rrule |-> "FREQ=DAILY", status |-> "TENTATIVE",
     transp |-> "OPAQUE", sequence |-> "2", description |-> "notes",
     attendee |-> One(Attendee(Bob, Some("ACCEPTED")))]
    @@ ("recurrence-id" :> "rid")

\* events that hold few or nearly all of the properties, anonymized or not
FieldCases ==
    { Case([DefaultArgs EXCEPT !.busy_placeholder = placeholder, !.calendar_domain = domain],
           OneEvent(Restrict(FullProps, keys), anonymize)) :
        keys \in {K \in SUBSET DOMAIN FullProps :
                    Cardinality(K) <= 2 \/ Cardinality(K) >= Cardinality(DOMAIN FullProps) - 2},
        placeholder \in {"busy", ""},
        domain \in {"camerge", "example.com"},
        anonymize \in BOOLEAN }

\* sources that give no data or no calendar
FailingCases ==
    { Case(DefaultArgs, source) :
        source \in { Source(Data, Garbage, TRUE), Source(Data, EmptyText, FALSE),
                     Source(<<"ftp", "://">>, Resource("ok"), FALSE),
                     Source(<<"file", "://">>, Resource("error"), TRUE) } }

EventCases == FilterCases \cup StatusCases \cup FieldCases \cup FailingCases

InitEvent ==
    /\ \E c \in EventCases : Start(c.args, <<c.source>>)
    /\ remembered = None

SpecEvent == InitEvent /\ [][Next]_vars

--------------------------------------------------------------------------
\* Several calls, one after the other, as the tests and the HTTP endpoint make them.

\* the source component an output component was made of
SourceOf(o) == get_calendar_data(calendar_data[o.source].url)[1].subcomponents[o.pos]

CallEvents ==
    { [uid |-> <<"u1">>, summary |-> "lunch"],
      [uid |-> <<"u1">>, summary |-> "review",
       attendee |-> One(Attendee(Me, Some("DECLINED")))],
      [uid |-> <<"u2">>, summary |-> "lunch", dtend |-> Day(1)],
      [summary |-> "lunch"],
      [summary |-> "review", dtend |-> Day(1)] }

CallCases ==
    { Case([DefaultArgs EXCEPT !.known_emails = known, !.calendar_domain = domain,
                               !.skip_events_before = cutoff],
           OneEvent(props, anonymize)) :
        props \in CallEvents,
        known \in {None, Some(<<<<"me", "@x">>>>)},
        domain \in {"camerge", "example.com"},
        cutoff \in {None, Some(Day(1))},
        anonymize \in BOOLEAN }
    \cup FailingCases

\* what an observer may keep of a finished call: nothing new, or one of its events
Kept ==
    {remembered}
    \cup { Some([component |-> SourceOf(origin[k]),
                 domain |-> args.calendar_domain,
                 uid |-> calendar.subcomponents[k].props["uid"]]) :
             k \in {i \in 1..Len(origin) : calendar.subcomponents[i].name = "VEVENT"} }

\* merge_calendars is called again
Call ==
    /\ pc \in {"returned", "raised"}
    /\ \E c \in CallCases :
        /\ args' = c.args
        /\ calendar_data' = <<c.source>>
        /\ calendar' = new_calendar(c.args.calendar_name)
    /\ idx' = 1
    /\ pc' = "loop"
    /\ result' = None
    /\ origin' = <<>>
    /\ remembered' \in Kept

InitCalls ==
    /\ \E c \in CallCases : Start(c.args, <<c.source>>)
    /\ remembered = None

NextCalls == Next \/ Call

SpecCalls == InitCalls /\ [][NextCalls]_vars

--------------------------------------------------------------------------
\* What the claims speak of, stated from the inputs and not from the helpers.

Scheme(source) == source.url.scheme

\* the fetch of the source fails: an I/O or network error, or an unknown scheme
FetchFails(source) ==
    IF Scheme(source) = Data THEN FALSE
    ELSE IF Scheme(source) \in {<<"file", "://">>, <<"http", "://">>, <<"http", "s", "://">>,
                                <<"webcal", "://">>}
    THEN source.url.rest.io = "error"
    ELSE TRUE

\* the text the fetch of a source that does not fail gives
TextOf(source) == IF Scheme(source) = Data THEN source.url.rest ELSE source.url.rest.content

Malformed(source) == ~FetchFails(source) /\ TextOf(source).raw = "garbage"

\* the source yielded data that parsed
Parsed(source) == ~FetchFails(source) /\ TextOf(source).raw = "ical"

\* the output events, by position in the calendar
OutputEvents == {k \in 1..Len(origin) : calendar.subcomponents[k].name = "VEVENT"}

Out(k) == calendar.subcomponents[k]

Src(k) == SourceOf(origin[k])

Anonymized(k) == calendar_data[origin[k].source].anonymize

\* what one parsed component contributes to the merged calendar
Contribution(component, anonymize) ==
    IF component.name = "VTIMEZONE" THEN <<component>>
    ELSE IF component.name = "VEVENT"
            /\ ~should_skip_event(component, args.skip_events_before)
    THEN <<process_event(component, args.calendar_domain,
                         IF args.known_emails = None THEN <<>> ELSE args.known_emails[1],
                         IF anonymize THEN Some(args.busy_placeholder) ELSE None)>>
    ELSE <<>>

RECURSIVE ContributionsOf(_, _, _)
ContributionsOf(subcomponents, n, anonymize) ==
    IF n = 0 THEN <<>>
    ELSE ContributionsOf(subcomponents, n - 1, anonymize)
         \o Contribution(subcomponents[n], anonymize)

\* the concatenation over the first n sources, those that yielded no calendar left out
RECURSIVE ExpectedComponents(_)
ExpectedComponents(n) ==
    IF n = 0 THEN <<>>
    ELSE ExpectedComponents(n - 1)
         \o (IF Parsed(calendar_data[n])
             THEN LET subcomponents == TextOf(calendar_data[n]).subcomponents
                  IN  ContributionsOf(subcomponents, Len(subcomponents), calendar_data[n].anonymize)
             ELSE <<>>)

\* C1: merge_calendars never surfaces an error: whatever sources hold malformed
\* text, the call returns, and what it returns holds the components of every
\* source that fetched and parsed, the malformed ones being skipped.
C1_NoErrorSurfaced ==
    /\ pc /= "raised"
    /\ pc = "returned" => calendar.subcomponents = ExpectedComponents(Len(calendar_data))

\* C2: when a source of the list fails to fetch, it contributes nothing, every
\* other source is still fetched and processed, and the output holds the
\* components of all the remaining sources, wherever the failing source stands.
C2_FetchFailureSkipped ==
    (pc /= "loop" /\ \E i \in 1..Len(calendar_data) : FetchFails(calendar_data[i]))
        => /\ pc = "returned"
           /\ idx = Len(calendar_data) + 1
           /\ \A k \in 1..Len(origin) : ~FetchFails(calendar_data[origin[k].source])
           /\ calendar.subcomponents = ExpectedComponents(Len(calendar_data))

\* the text is a calendar envelope with the given product id and version 2.0
Envelope(text, calendar_name) ==
    /\ Len(text) > 0
    /\ StartsWith(text, <<"BEGIN", ":", "VCALENDAR", "\n">>)
    /\ Len(text) >= 8
    /\ SubSeq(text, Len(text) - 3, Len(text)) = <<"END", ":", "VCALENDAR", "\n">>
    /\ Contains(text, <<"\n", "PRODID", ":", calendar_name, "\n">>)
    /\ Contains(text, <<"\n", "VERSION", ":", "2.0", "\n">>)

\* C3: for every list of sources the call returns a non-empty text, a calendar
\* envelope (open marker, product id calendar_name, version 2.0, close marker)
\* around the components.
C3_ReturnsEnvelope ==
    pc /= "loop" => /\ pc = "returned"
                    /\ result /= None
                    /\ Envelope(result[1], args.calendar_name)

\* C9: the components of the merged calendar are the concatenation, in list
\* order, of what each source that yielded data contributes in parse order: a
\* timezone unmodified, an event as its projection unless the filter skips it,
\* nothing else; every source is processed once, nothing is merged or re-ordered.
C9_SourceThenParseOrder ==
    /\ calendar.subcomponents = ExpectedComponents(idx - 1)
    /\ pc = "returned" => idx = Len(calendar_data) + 1
    /\ \A k, l \in 1..Len(origin) :
          k < l => \/ origin[k].source < origin[l].source
                   \/ origin[k].source = origin[l].source /\ origin[k].pos < origin[l].pos

\* C9 witness: a returned calendar in which the same event of two sources appears
\* twice, with a timezone, under a cutoff that dropped an event.
C9_Witness ==
    /\ pc = "returned"
    /\ args.skip_events_before /= None
    /\ \E k, l \in OutputEvents :
          /\ origin[k].source /= origin[l].source
          /\ Out(k) = Out(l)
    /\ \E k \in 1..Len(origin) : Out(k).name = "VTIMEZONE"
    /\ \E i \in 1..Len(calendar_data) :
          /\ Parsed(calendar_data[i])
          /\ \E j \in 1..Len(TextOf(calendar_data[i]).subcomponents) :
                /\ TextOf(calendar_data[i]).subcomponents[j].name = "VEVENT"
                /\ \A k \in 1..Len(origin) : origin[k] /= [source |-> i, pos |-> j]

--------------------------------------------------------------------------
\* Claims about single events.

Three == {"CONFIRMED", "CANCELLED", "TENTATIVE"}

\* the known_emails the call was given, [] when it was given None
GivenEmails == IF args.known_emails = None THEN <<>> ELSE args.known_emails[1]

AttendeesOf(component) ==
    {component.props["attendee"].v[i] : i \in 1..Len(component.props["attendee"].v)}

\* the attendee's address contains one of the known emails
IsKnown(a) == \E e \in 1..Len(GivenEmails) : Contains(a.address, GivenEmails[e])

\* the participation statuses of the known attendees
KnownPartStats(component) ==
    {a.params.partstat[1] : a \in {b \in AttendeesOf(component) : IsKnown(b) /\ b.params.partstat /= None}}

StoredStatus(component) ==
    IF Has(component, "status") THEN component.props["status"] ELSE "CONFIRMED"

ResolvedStatus(component) ==
    IF "ACCEPTED" \in KnownPartStats(component) THEN "CONFIRMED"
    ELSE IF "DECLINED" \in KnownPartStats(component) THEN "CANCELLED"
    ELSE IF KnownPartStats(component) \cap {"TENTATIVE", "NEEDS-ACTION"} /= {} THEN "TENTATIVE"
    ELSE StoredStatus(component)

\* C4: for an event with attendees and a non-empty known_emails, the output
\* STATUS is decided by the participation statuses of the known attendees alone:
\* ACCEPTED gives CONFIRMED, else DECLINED gives CANCELLED, else TENTATIVE or
\* NEEDS-ACTION gives TENTATIVE, else the stored status or CONFIRMED; it replaces
\* the status copied from the source.
C4_StatusFromKnownAttendees ==
    \A k \in OutputEvents :
        (Has(Src(k), "attendee") /\ Len(GivenEmails) > 0)
            => /\ Has(Out(k), "status")
               /\ Out(k).props["status"] = ResolvedStatus(Src(k))

\* C4 witness: a known attendee accepted, an unknown one declined, the stored
\* status is CANCELLED, and the output event is CONFIRMED.
C4_Witness ==
    \E k \in OutputEvents :
        /\ Has(Src(k), "attendee")
        /\ Has(Src(k), "status")
        /\ Src(k).props["status"] = "CANCELLED"
        /\ \E a \in AttendeesOf(Src(k)) : IsKnown(a) /\ a.params.partstat = Some("ACCEPTED")
        /\ \E a \in AttendeesOf(Src(k)) : ~IsKnown(a) /\ a.params.partstat = Some("DECLINED")
        /\ Out(k).props["status"] = "CONFIRMED"

\* C5: an output event of a source whose anonymize flag is true has the
\* placeholder as its summary, whatever the placeholder; an output event of a
\* source whose flag is false has the summary of its source event, or none.
C5_AnonymizeReplacesSummary ==
    \A k \in OutputEvents :
        IF Anonymized(k)
        THEN Has(Out(k), "summary") /\ Out(k).props["summary"] = args.busy_placeholder
        ELSE IF Has(Src(k), "summary")
             THEN Has(Out(k), "summary") /\ Out(k).props["summary"] = Src(k).props["summary"]
             ELSE ~Has(Out(k), "summary")

\* the calendar date an event ends on: of its end, of its start when it has no end
EndDay(component) ==
    IF Has(component, "dtend") THEN component.props["dtend"].day
    ELSE component.props["dtstart"].day

DropCondition(component) ==
    /\ args.skip_events_before /= None
    /\ (Has(component, "dtstart") \/ Has(component, "dtend"))
    /\ ~Has(component, "rrule")
    /\ EndDay(component) < args.skip_events_before[1].day

\* the events of the sources processed so far, as (source, position) pairs
ProcessedEvents ==
    {o \in UNION {{[source |-> i, pos |-> j] :
                      j \in 1..(IF Parsed(calendar_data[i])
                                THEN Len(TextOf(calendar_data[i]).subcomponents) ELSE 0)} :
                  i \in 1..(idx - 1)} :
        SourceOf(o).name = "VEVENT"}

Dropped(o) == \A k \in 1..Len(origin) : origin[k] /= o

\* C6: an event is dropped exactly when a cutoff is set, the event has a start
\* or an end, it has no recurrence rule, and the date of its end (of its start
\* when it has no end) is strictly before the cutoff.
C6_DroppedExactlyWhenStale ==
    \A o \in ProcessedEvents : Dropped(o) <=> DropCondition(SourceOf(o))

\* C6 witness: an event without end whose start is a date-time on the day before
\* the cutoff was dropped.
C6_Witness ==
    \E o \in ProcessedEvents :
        /\ Dropped(o)
        /\ ~Has(SourceOf(o), "dtend")
        /\ "time" \in DOMAIN SourceOf(o).props["dtstart"]
        /\ SourceOf(o).props["dtstart"].day + 1 = args.skip_events_before[1].day

AllowList ==
    {"dtstart", "dtend", "dtstamp", "rrule", "status", "summary", "transp", "sequence",
     "recurrence-id", "uid"}

\* C8 as stated: only allow-listed fields; each allow-listed field of the source
\* copied with an equal value; no field invented but unique-id and status; no
\* attendee and no original unique identifier.
C8_OnlyAllowListedFieldsCopied ==
    \A k \in OutputEvents :
        /\ DOMAIN Out(k).props \subseteq AllowList
        /\ \A key \in (AllowList \ {"uid"}) \cap DOMAIN Src(k).props :
              Has(Out(k), key) /\ Out(k).props[key] = Src(k).props[key]
        /\ \A key \in DOMAIN Out(k).props \ {"uid", "status"} : Has(Src(k), key)
        /\ {"uid", "status"} \subseteq DOMAIN Out(k).props
        /\ ~Has(Out(k), "attendee")
        /\ Has(Src(k), "uid") => Out(k).props["uid"] /= Src(k).props["uid"]

\* C8, amended: only allow-listed fields; start, end, stamp, recurrence rule,
\* transparency, sequence and recurrence-id are present exactly when the source
\* has them, with an equal value; a summary of the source stays present, and the
\* output summary is the source's or the placeholder of an anonymized source;
\* unique-id and status are always present; no attendee and no original
\* unique identifier.
C8_AllowListedFields ==
    \A k \in OutputEvents :
        /\ DOMAIN Out(k).props \subseteq AllowList
        /\ \A key \in AllowList \ {"uid", "status", "summary"} :
              /\ Has(Out(k), key) <=> Has(Src(k), key)
              /\ Has(Src(k), key) => Out(k).props[key] = Src(k).props[key]
        /\ Has(Src(k), "summary") => Has(Out(k), "summary")
        /\ Has(Out(k), "summary") =>
              \/ Has(Src(k), "summary") /\ Out(k).props["summary"] = Src(k).props["summary"]
              \/ Anonymized(k) /\ Out(k).props["summary"] = args.busy_placeholder
        /\ {"uid", "status"} \subseteq DOMAIN Out(k).props
        /\ ~Has(Out(k), "attendee")
        /\ Has(Src(k), "uid") => Out(k).props["uid"] /= Src(k).props["uid"]

\* C8 witness: an anonymized output event with a summary its source did not have,
\* made of a source event that has a uid, an attendee and a description.
C8_Witness ==
    \E k \in OutputEvents :
        /\ Anonymized(k)
        /\ ~Has(Src(k), "summary")
        /\ Has(Out(k), "summary")
        /\ {"uid", "attendee", "description", "transp"} \subseteq DOMAIN Src(k).props

\* C10 as stated: the STATUS of every output event is CONFIRMED, CANCELLED or
\* TENTATIVE.
C10_StatusIsOneOfThree ==
    \A k \in OutputEvents : Has(Out(k), "status") /\ Out(k).props["status"] \in Three

\* C10, amended: the STATUS of every output event is CONFIRMED, CANCELLED or
\* TENTATIVE, or else the status stored in its source event, unchanged.
C10_StatusIsOneOfThreeOrStored ==
    \A k \in OutputEvents :
        /\ Has(Out(k), "status")
        /\ \/ Out(k).props["status"] \in Three
           \/ Has(Src(k), "status") /\ Out(k).props["status"] = Src(k).props["status"]

\* C10 witness: an event with a known attendee who gave no answer keeps a stored
\* status that is none of the three values.
C10_Witness ==
    \E k \in OutputEvents :
        /\ Has(Src(k), "attendee")
        /\ \E a \in AttendeesOf(Src(k)) : IsKnown(a)
        /\ Out(k).props["status"] \notin Three

--------------------------------------------------------------------------
\* The claim about several calls.

\* the same source event: the same original uid or, without uid, the same content
SameSourceEvent(a, b) ==
    IF Has(a, "uid") /\ Has(b, "uid") THEN a.props["uid"] = b.props["uid"]
    ELSE ~Has(a, "uid") /\ ~Has(b, "uid") /\ a = b

\* <hex-digest>@<domain>
DerivedForm(uid, domain) ==
    /\ Len(uid) >= 3
    /\ uid[Len(uid)] = domain
    /\ uid[Len(uid) - 1] = "@"
    /\ \A i \in 1..(Len(uid) - 2) : \E h \in 1..Len(HexDigits) : uid[i] = HexDigits[h]

\* C7: the derived identifier has the form <hex-digest>@<domain>, and an event
\* of an earlier call and an event of this call that are the same source event
\* under the same domain have the same identifier, whatever the known_emails,
\* anonymize and cutoff of the two calls.
C7_IdentityStable ==
    \A k \in OutputEvents :
        /\ DerivedForm(Out(k).props["uid"], args.calendar_domain)
        /\ (/\ remembered /= None
            /\ remembered[1].domain = args.calendar_domain
            /\ SameSourceEvent(remembered[1].component, Src(k)))
               => remembered[1].uid = Out(k).props["uid"]

\* C7 witness: an event of this anonymized call has the uid of an event of an
\* earlier call with another content, and the two derived identifiers agree.
C7_Witness ==
    /\ remembered /= None
    /\ \E k \in OutputEvents :
          /\ Anonymized(k)
          /\ args.known_emails /= None
          /\ Has(Src(k), "uid")
          /\ Has(remembered[1].component, "uid")
          /\ remembered[1].component.props["uid"] = Src(k).props["uid"]
          /\ remembered[1].component /= Src(k)
          /\ remembered[1].domain = args.calendar_domain
          /\ remembered[1].uid = Out(k).props["uid"]

====
